---- MODULE Spec2Model ----
(***************************************************************************)
(* Model of the char charm (src/src/charm.py): one unit of the charm, its  *)
(* workload container (Pebble plan and service state), its view of the     *)
(* "replicas" peer relation, and the events and actions the Juju           *)
(* controller dispatches to it.  Each hook runs in a process of its own    *)
(* and to completion; events are delivered one at a time.                  *)
(***************************************************************************)
EXTENDS Integers, Sequences, FiniteSets, TLC

VARIABLES
    config,          \* self.config: [port, name]
    canConnect,      \* what container.can_connect() answers
    bindAddress,     \* model.get_binding("replicas").network.bind_address
    peerRelation,    \* whether model.get_relation("replicas") is not None
    peerUnits,       \* peer_relation.units (never holds this unit)
    peerData,        \* peer_relation.data[unit].get("private_address"), per peer
    ownData,         \* peer_relation.data[self.unit].get("private_address")
    plan,            \* container.get_plan().services: service name -> service
    serviceRunning,  \* container.get_service("char").is_running()
    status,          \* self.unit.status
    pass,            \* what the run of _common_exit_hook in the last step did
    quiet,           \* complete passes in a row with nothing changed in between
    glob,            \* what the last glob-status action did
    action,          \* the action the last step ran, and what it did
    isLeader,        \* sees requires side: self.model.unit.is_leader()
    config_dict,     \* sees requires side: SeesRequires.config_dict
    reqStatus,       \* sees requires side: self.model.unit.status
    seesRelation,    \* whether model.get_relation("sees") is not None
    appData,         \* relation.data[app] of the requiring application
    provLeader,      \* sees provides side: self.model.unit.is_leader()
    provStatus,      \* sees provides side: self.model.unit.status
    sees,            \* what the last step of the sees library did
    validated        \* the leader's dictionary passed the full validation,
                     \* and update_config got recognized keys only since

charmVars == <<config, canConnect, bindAddress, peerRelation, peerUnits,
               peerData, ownData, plan, serviceRunning, status, pass, quiet,
               glob, action>>

seesVars == <<isLeader, config_dict, reqStatus, seesRelation, appData,
              provLeader, provStatus, sees, validated>>

vars == <<charmVars, seesVars>>

(***************************************************************************)
(* Bounds and value sets.                                                  *)
(***************************************************************************)
MaxPeers == 2

Units == 1 .. MaxPeers

NoneVal == "<None>"

Ports == {"8080", "9090"}

Names == {"a"}

Configs == [port : Ports, name : Names]

BindAddresses == {"10.1.0.1", "10.1.0.2"}

_port == 8080

_service_name == "char"

(***************************************************************************)
(* Python's str() of a natural number, as the f-string of                  *)
(* _get_peer_addresses formats self._port.                                 *)
(***************************************************************************)
Digit(d) == <<"0", "1", "2", "3", "4", "5", "6", "7", "8", "9">>[d + 1]

RECURSIVE Str(_)
Str(n) == IF n < 10 THEN Digit(n) ELSE Str(n \div 10) \o Digit(n % 10)

\* The address peer unit u publishes once it has one.
UnitAddress(u) == "10.0.0." \o Str(u)

\* What a peer's databag can hold under "private_address".
AddressValues(u) == {NoneVal, "", UnitAddress(u)}

\* Python truthiness of an Optional[str].
Truthy(v) == v # NoneVal /\ v # ""

\* sep.join(list)
RECURSIVE Join(_, _)
Join(sep, list) ==
    IF list = <<>> THEN ""
    ELSE IF Len(list) = 1 THEN list[1]
    ELSE list[1] \o sep \o Join(sep, Tail(list))

\* The orders in which a Python set holding the units S can be iterated.
Orders(S) ==
    {o \in [1 .. Cardinality(S) -> S] : \A i, j \in DOMAIN o : o[i] = o[j] => i = j}

\* f"{address}:{self._port}"
Entry(address) == address \o ":" \o Str(_port)

\* _get_peer_addresses filtering on "is not None" instead of truthiness: an
\* empty address is rendered.
RECURSIVE GetPeerAddressesKeepEmpty(_, _, _)
GetPeerAddressesKeepEmpty(pr, order, data) ==
    IF ~pr \/ order = <<>> THEN <<>>
    ELSE LET address == data[Head(order)]
             rest == GetPeerAddressesKeepEmpty(pr, Tail(order), data)
         IN IF address # NoneVal THEN <<Entry(address)>> \o rest ELSE rest

(***************************************************************************)
(* _get_peer_addresses: one "address:port" per peer unit with a truthy     *)
(* private_address, in the iteration order of pr.units.                    *)
(***************************************************************************)
RECURSIVE _get_peer_addresses(_, _, _)
_get_peer_addresses(pr, order, data) ==
    IF ~pr \/ order = <<>> THEN <<>>
    ELSE LET address == data[Head(order)]
             rest == _get_peer_addresses(pr, Tail(order), data)
         IN IF Truthy(address) THEN <<Entry(address)>> \o rest ELSE rest

(***************************************************************************)
(* _char_layer: the services of the rendered layer.                        *)
(***************************************************************************)
_char_layer(cfg, enemies) ==
    [n \in {_service_name} |->
        [override |-> "replace",
         summary |-> "char service",
         command |-> "./main.sh",
         startup |-> "enabled",
         environment |-> [ENEMIES |-> Join(";", enemies),
                          UVICORN_PORT |-> cfg.port,
                          NAME |-> cfg.name,
                          LOGLEVEL |-> "INFO"]]]

EmptyPlan == [n \in {} |-> 0]


\* How Pebble combines a service given with override "merge" into the one of
\* the plan: field by field, and the environment key by key.
MergeService(old, new) ==
    [new EXCEPT !.environment =
        [k \in DOMAIN old.environment \cup DOMAIN new.environment |->
            IF k \in DOMAIN new.environment THEN new.environment[k]
            ELSE old.environment[k]]]

\* container.add_layer(self._layer_name, overlay, combine=True): a service
\* given with override "replace" replaces the plan's service of that name.
add_layer(services, overlay) ==
    [n \in DOMAIN services \cup DOMAIN overlay |->
        IF n \notin DOMAIN overlay THEN services[n]
        ELSE IF n \in DOMAIN services /\ overlay[n].override = "merge"
             THEN MergeService(services[n], overlay[n])
             ELSE overlay[n]]

\* _restart_service without the check that the service exists in the plan.
RestartServiceNoPlanCheck(cc, services) ==
    IF ~cc THEN FALSE ELSE TRUE

(***************************************************************************)
(* _restart_service: TRUE iff container.restart was issued.  cc is what    *)
(* can_connect() answers at this call.                                     *)
(***************************************************************************)
_restart_service(cc, services) ==
    IF ~cc THEN FALSE
    ELSE IF _service_name \notin DOMAIN services THEN FALSE
    ELSE TRUE

\* _update_layer with the comparison of the services left out: the layer is
\* added only while the plan has no char service.
UpdateLayerWhenAbsent(cc, services, overlay, restart) ==
    IF _service_name \notin DOMAIN services
    THEN [changed |-> TRUE, services |-> add_layer(services, overlay),
          restarted |-> FALSE]
    ELSE [changed |-> FALSE, services |-> services, restarted |-> FALSE]

(***************************************************************************)
(* _update_layer: adds the rendered layer when the plan has no char        *)
(* service or its services differ from the rendered ones.                  *)
(***************************************************************************)
_update_layer(cc, services, overlay, restart) ==
    IF _service_name \notin DOMAIN services \/ overlay # services
    THEN LET added == add_layer(services, overlay)
         IN [changed |-> TRUE,
             services |-> added,
             restarted |-> restart /\ _restart_service(cc, added)]
    ELSE [changed |-> FALSE, services |-> services, restarted |-> FALSE]

ActiveStatus == [name |-> "active", message |-> ""]

MaintenanceStatus(message) == [name |-> "maintenance", message |-> message]

\* private_address: str(bind_address) when there is one, else the falsy value.
private_address(bind) == IF Truthy(bind) THEN bind ELSE NoneVal

NoPass ==
    [event |-> "", kind |-> "none", changed |-> FALSE, restartCalled |-> FALSE,
     restarted |-> FALSE, running |-> FALSE, replaced |-> FALSE]

\* The publication done on first discovery only: an address already in the
\* databag is kept.
PublishOnce(pr, own, address) ==
    IF pr /\ ~Truthy(own) THEN address ELSE own

\* The unit's "private_address" databag entry after the hook's publication:
\* written whenever there is a peer relation.
Publish(pr, own, address) ==
    IF pr THEN address ELSE own

NoGlob == [hosts |-> {}, queried |-> <<>>, failed |-> {}, aborted |-> FALSE]

\* No action ran.  restart: the action issued container.restart; results: it
\* called event.set_results.
NoAction == [name |-> "", restart |-> FALSE, results |-> FALSE]

Min(a, b) == IF a < b THEN a ELSE b

\* The opening checks with the can_connect check left out.
PassKindNoConnectCheck(cc, bind) ==
    IF ~Truthy(private_address(bind)) THEN "noaddress" ELSE "full"

\* The opening checks with the address check left out.
PassKindNoAddressCheck(cc, bind) ==
    IF ~cc THEN "noconnect" ELSE "full"

(***************************************************************************)
(* The two checks that open _common_exit_hook: the container must answer   *)
(* and the unit must have an address, in this order.                       *)
(***************************************************************************)
PassKind(cc, bind) ==
    IF ~cc THEN "noconnect"
    ELSE IF ~Truthy(private_address(bind)) THEN "noaddress"
    ELSE "full"

(***************************************************************************)
(* _common_exit_hook, run by an event whose process sees the connectivity  *)
(* cc, the config cfg, the peer relation (pr, units, data) and iterates    *)
(* pr.units in the given order.  same: the event changed none of the       *)
(* hook's inputs.  lost: Pebble stops answering between the hook's         *)
(* get_service and the can_connect of _restart_service.                    *)
(***************************************************************************)
_common_exit_hook(event, cc, cfg, pr, units, data, order, same) ==
    LET kind == PassKind(cc, bindAddress)
    IN IF kind = "noconnect" THEN
        /\ status' = MaintenanceStatus("Waiting for pod startup to complete")
        /\ canConnect' = cc
        /\ UNCHANGED <<ownData, plan, serviceRunning>>
        /\ pass' = [NoPass EXCEPT !.event = event, !.kind = kind]
        /\ UNCHANGED seesVars
        /\ quiet' = 0
    ELSE IF kind = "noaddress" THEN
        /\ status' = MaintenanceStatus("Waiting for IP address")
        /\ canConnect' = cc
        /\ UNCHANGED <<ownData, plan, serviceRunning>>
        /\ pass' = [NoPass EXCEPT !.event = event, !.kind = kind]
        /\ UNCHANGED seesVars
        /\ quiet' = 0
    ELSE
        LET overlay == _char_layer(cfg, _get_peer_addresses(pr, order, data))
            upd == _update_layer(cc, plan, overlay, FALSE)
            layer_changed == upd.changed
            service_running == serviceRunning
            num_peers == Cardinality(units)
            call == pr /\ layer_changed /\ (~service_running \/ num_peers > 0)
        IN \E lost \in (IF call THEN BOOLEAN ELSE {FALSE}) :
           LET done == call /\ _restart_service(cc /\ ~lost, upd.services)
           IN /\ ownData' = Publish(pr, ownData, private_address(bindAddress))
              /\ plan' = upd.services
              /\ serviceRunning' = (done \/ serviceRunning)
              /\ status' = ActiveStatus
              /\ canConnect' = (cc /\ ~lost)
              /\ pass' = [event |-> event, kind |-> kind,
                          changed |-> layer_changed, restartCalled |-> call,
                          restarted |-> done, running |-> service_running,
                          replaced |-> pr /\ Truthy(ownData)
                                       /\ ownData # private_address(bindAddress)]
              /\ quiet' = IF lost THEN 0
                          ELSE IF same THEN Min(quiet + 1, 2) ELSE 1
              /\ UNCHANGED seesVars

(***************************************************************************)
(* The sees relation library (lib/charms/char/v0/sees.py).  The charm does *)
(* not import it; it is modelled as the two objects a charm would hold,    *)
(* SeesRequires on one application and SeesProvides on the other, talking  *)
(* through the requiring application's databag.                            *)
(***************************************************************************)
REQUIRED_SEES_RELATION_FIELDS == {"service-hostname"}

OPTIONAL_SEES_RELATION_FIELDS == {"service-port"}

\* The keys the module docstring documents for config_dict.
DocumentedKeys == {"service-hostname", "service-name", "service-port"}

\* The keys a caller may put in a config dictionary.
SeesKeys == DocumentedKeys \cup {"service-token"}

\* The port of the docstring's example.
SeesPort == 8080

\* Python values a config dictionary holds: a str or an int.
StrVal(s) == [t |-> "str", s |-> s, n |-> 0]

IntVal(n) == [t |-> "int", s |-> "", n |-> n]

\* str(value)
PyStr(x) == IF x.t = "int" THEN Str(x.n) ELSE x.s

KeyValues(k) ==
    CASE k = "service-hostname" -> {StrVal("foo.internal"), StrVal("bar.internal")}
      [] k = "service-name" -> {StrVal("char")}
      [] k = "service-port" -> {IntVal(SeesPort)}
      [] k = "service-token" -> {StrVal("secret")}

\* The config dictionaries: any subset of the keys, each with one of its values.
Dicts ==
    UNION {{d \in [K -> UNION {KeyValues(k) : k \in SeesKeys}] :
               \A k \in K : d[k] \in KeyValues(k)} : K \in SUBSET SeesKeys}

\* An empty dict, and an empty databag.
NoData == [k \in {} |-> ""]

BlockedStatus(message) == [name |-> "blocked", message |-> message]

\* The source quotes juju debug-log in back quotes, which a string cannot
\* hold here; they are written as single quotes.
blocked_message == "Error in sees relation, check 'juju debug-log'"

\* _config_dict_errors without the check for unknown keys.
ConfigDictErrorsNoUnknownCheck(cfg, update_only) ==
    ~update_only /\ {x \in REQUIRED_SEES_RELATION_FIELDS : x \notin DOMAIN cfg} # {}

\* _config_dict_errors: TRUE iff the dictionary is refused; the caller sets
\* BlockedStatus(blocked_message) exactly then.
_config_dict_errors(cfg, update_only) ==
    LET unknown == {x \in DOMAIN cfg :
                       x \notin REQUIRED_SEES_RELATION_FIELDS
                                  \cup OPTIONAL_SEES_RELATION_FIELDS}
        missing == {x \in REQUIRED_SEES_RELATION_FIELDS : x \notin DOMAIN cfg}
    IN IF unknown # {} THEN TRUE
       ELSE IF ~update_only /\ missing # {} THEN TRUE
       ELSE FALSE

\* for key in config_dict: data[key] = str(config_dict[key])
WriteAll(data, cfg) ==
    [k \in DOMAIN data \cup DOMAIN cfg |->
        IF k \in DOMAIN cfg THEN PyStr(cfg[k]) ELSE data[k]]

NoSees == [op |-> "", leader |-> FALSE, differs |-> FALSE, emitted |-> FALSE]

\* The field names in sorted() order.
FieldOrder == <<"service-hostname", "service-name", "service-port", "service-token">>

Sorted(S) == SelectSeq(FieldOrder, LAMBDA f : f \in S)

\* missing_fields computed over every field read, the optional ones included.
MissingFieldsAll(data) ==
    Sorted({f \in DOMAIN data : data[f] = NoneVal})

\* missing_fields of SeesProvides._on_relation_changed; data is sees_data.
missing_fields(data) ==
    Sorted({f \in REQUIRED_SEES_RELATION_FIELDS : data[f] = NoneVal})

Init ==
    /\ config \in Configs
    /\ canConnect = FALSE
    /\ bindAddress = NoneVal
    /\ peerRelation = FALSE
    /\ peerUnits = {}
    /\ peerData = [u \in Units |-> NoneVal]
    /\ ownData = NoneVal
    /\ plan = EmptyPlan
    /\ serviceRunning = FALSE
    /\ status = MaintenanceStatus("")
    /\ pass = NoPass
    /\ quiet = 0
    /\ glob = NoGlob
    /\ action = NoAction
    /\ isLeader = FALSE
    /\ config_dict = NoData
    /\ reqStatus = MaintenanceStatus("")
    /\ seesRelation = FALSE
    /\ appData = NoData
    /\ provLeader = FALSE
    /\ provStatus = MaintenanceStatus("")
    /\ sees = NoSees
    /\ validated = FALSE

(***************************************************************************)
(* Events the charm observes (__init__): each runs _common_exit_hook.      *)
(***************************************************************************)
_on_config_changed ==
    \E cfg \in Configs, order \in Orders(peerUnits) :
        /\ config' = cfg
        /\ glob' = NoGlob
        /\ action' = NoAction
        /\ UNCHANGED <<bindAddress, peerRelation, peerUnits, peerData>>
        /\ _common_exit_hook("config_changed", canConnect, cfg, peerRelation,
                             peerUnits, peerData, order, cfg = config)

\* pebble-ready tells that the container answers.
_on_pebble_ready ==
    \E order \in Orders(peerUnits) :
        /\ glob' = NoGlob
        /\ action' = NoAction
        /\ UNCHANGED <<config, bindAddress, peerRelation, peerUnits, peerData>>
        /\ _common_exit_hook("char_pebble_ready", TRUE, config, peerRelation,
                             peerUnits, peerData, order, canConnect)

_on_start ==
    \E order \in Orders(peerUnits) :
        /\ glob' = NoGlob
        /\ action' = NoAction
        /\ UNCHANGED <<config, bindAddress, peerRelation, peerUnits, peerData>>
        /\ _common_exit_hook("start", canConnect, config, peerRelation,
                             peerUnits, peerData, order, TRUE)

\* A peer unit joins; it may or may not have published its address yet.
_on_peer_relation_joined ==
    \E u \in Units \ peerUnits : \E a \in AddressValues(u) :
        LET units == peerUnits \cup {u}
            data == [peerData EXCEPT ![u] = a]
        IN /\ peerRelation
           /\ peerUnits' = units
           /\ peerData' = data
           /\ glob' = NoGlob
           /\ action' = NoAction
           /\ UNCHANGED <<config, bindAddress, peerRelation>>
           /\ \E order \in Orders(units) :
                _common_exit_hook("relation_joined", canConnect, config,
                                  peerRelation, units, data, order, FALSE)

\* A peer unit's databag is written (or the event is delivered again).
_on_peer_relation_changed ==
    \E u \in peerUnits : \E a \in AddressValues(u) :
        LET data == [peerData EXCEPT ![u] = a]
        IN /\ peerData' = data
           /\ glob' = NoGlob
           /\ action' = NoAction
           /\ UNCHANGED <<config, bindAddress, peerRelation, peerUnits>>
           /\ \E order \in Orders(peerUnits) :
                _common_exit_hook("relation_changed", canConnect, config,
                                  peerRelation, peerUnits, data, order,
                                  a = peerData[u])

(***************************************************************************)
(* Events the charm does not observe: the controller changes what the      *)
(* unit would read, and no handler runs.                                   *)
(***************************************************************************)
relation_created ==
    /\ ~peerRelation
    /\ peerRelation' = TRUE
    /\ quiet' = 0
    /\ glob' = NoGlob
    /\ action' = NoAction
    /\ UNCHANGED <<config, canConnect, bindAddress, peerUnits, peerData,
                   ownData, plan, serviceRunning, status>>
    /\ pass' = NoPass
    /\ UNCHANGED seesVars

relation_departed ==
    \E u \in peerUnits :
        /\ peerUnits' = peerUnits \ {u}
        /\ peerData' = [peerData EXCEPT ![u] = NoneVal]
        /\ quiet' = 0
        /\ glob' = NoGlob
        /\ action' = NoAction
        /\ UNCHANGED <<config, canConnect, bindAddress, peerRelation, ownData,
                       plan, serviceRunning, status>>
        /\ pass' = NoPass
        /\ UNCHANGED seesVars

(***************************************************************************)
(* The environment: the binding gets, loses or changes its address; the    *)
(* container stops answering (recreated: its plan is empty again); the     *)
(* char process exits.                                                     *)
(***************************************************************************)
BindAddressChanges ==
    \E a \in (BindAddresses \cup {NoneVal}) \ {bindAddress} :
        /\ bindAddress' = a
        /\ quiet' = 0
        /\ glob' = NoGlob
        /\ action' = NoAction
        /\ UNCHANGED <<config, canConnect, peerRelation, peerUnits, peerData,
                       ownData, plan, serviceRunning, status>>
        /\ pass' = NoPass
        /\ UNCHANGED seesVars

ContainerDown ==
    \E recreated \in BOOLEAN :
        /\ canConnect
        /\ canConnect' = FALSE
        /\ plan' = IF recreated THEN EmptyPlan ELSE plan
        /\ serviceRunning' = IF recreated THEN FALSE ELSE serviceRunning
        /\ quiet' = 0
        /\ glob' = NoGlob
        /\ action' = NoAction
        /\ UNCHANGED <<config, bindAddress, peerRelation, peerUnits, peerData,
                       ownData, status>>
        /\ pass' = NoPass
        /\ UNCHANGED seesVars

ServiceStops ==
    /\ serviceRunning
    /\ serviceRunning' = FALSE
    /\ quiet' = 0
    /\ glob' = NoGlob
    /\ action' = NoAction
    /\ UNCHANGED <<config, canConnect, bindAddress, peerRelation, peerUnits,
                   peerData, ownData, plan, status>>
    /\ pass' = NoPass
    /\ UNCHANGED seesVars

(***************************************************************************)
(* Actions.                                                                *)
(***************************************************************************)
\* _on_war_action: posts to the local char and logs a failure to reach it.
_on_war_action ==
    /\ glob' = NoGlob
    /\ action' = [name |-> "war_action", restart |-> FALSE, results |-> FALSE]
    /\ UNCHANGED <<config, canConnect, bindAddress, peerRelation, peerUnits,
                   peerData, ownData, plan, serviceRunning, status, quiet>>
    /\ pass' = NoPass
    /\ UNCHANGED seesVars

\* _on_respawn_action: _restart_service and nothing else.
_on_respawn_action ==
    LET done == _restart_service(canConnect, plan)
    IN /\ serviceRunning' = (done \/ serviceRunning)
       /\ quiet' = IF done THEN 0 ELSE quiet
       /\ glob' = NoGlob
       /\ action' = [name |-> "respawn_action", restart |-> done, results |-> FALSE]
       /\ UNCHANGED <<config, canConnect, bindAddress, peerRelation, peerUnits,
                      peerData, ownData, plan, status>>
       /\ pass' = NoPass
       /\ UNCHANGED seesVars

\* A host of the peer list already ends in ":port".
HasPort(host) == \E u \in Units : host = Entry(UnitAddress(u))

\* f"http://{host}:8080" is a URL requests accepts iff host carries no port.
ValidUrl(host) == ~HasPort(host)

(***************************************************************************)
(* The loop of _on_glob_status_action over chain(['localhost'], enemies):  *)
(* get_name_and_hp raises when the URL is invalid or the endpoint does not *)
(* answer, and nothing catches it.  up: the hosts that answer.             *)
(***************************************************************************)
RECURSIVE GlobLoop(_, _, _)
GlobLoop(hosts, up, queried) ==
    IF hosts = <<>> THEN [queried |-> queried, failed |-> {}, aborted |-> FALSE]
    ELSE IF ValidUrl(Head(hosts)) /\ Head(hosts) \in up
         THEN GlobLoop(Tail(hosts), up, Append(queried, Head(hosts)))
         ELSE [queried |-> queried, failed |-> {}, aborted |-> TRUE]

_on_glob_status_action ==
    \E order \in Orders(peerUnits) :
        LET hosts == <<"localhost">> \o
                     _get_peer_addresses(peerRelation, order, peerData)
            all == {hosts[i] : i \in DOMAIN hosts}
        IN \E up \in SUBSET all :
            LET r == GlobLoop(hosts, IF serviceRunning THEN up
                                     ELSE up \ {"localhost"}, <<>>)
            IN /\ glob' = [hosts |-> all, queried |-> r.queried,
                           failed |-> r.failed, aborted |-> r.aborted]
               /\ action' = [name |-> "glob_status_action", restart |-> FALSE,
                              results |-> FALSE]
               /\ UNCHANGED <<config, canConnect, bindAddress, peerRelation,
                              peerUnits, peerData, ownData, plan,
                              serviceRunning, status, quiet>>
               /\ pass' = NoPass
               /\ UNCHANGED seesVars

(***************************************************************************)
(* The steps of the sees library.                                          *)
(***************************************************************************)
\* A new hook process builds the object again with the charm's dictionary.
SeesRequires__init__ ==
    /\ \E d \in Dicts : config_dict' = d
    /\ sees' = [NoSees EXCEPT !.op = "init"]
    /\ validated' = FALSE
    /\ UNCHANGED <<isLeader, reqStatus, seesRelation, appData, provLeader,
                   provStatus>>
    /\ UNCHANGED charmVars

SeesRequires_on_relation_changed ==
    /\ seesRelation
    /\ sees' = [NoSees EXCEPT !.op = "requires_relation_changed",
                              !.leader = isLeader]
    /\ IF isLeader
       THEN IF _config_dict_errors(config_dict, FALSE)
            THEN /\ reqStatus' = BlockedStatus(blocked_message)
                 /\ appData' = appData
                 /\ validated' = FALSE
            ELSE /\ appData' = WriteAll(appData, config_dict)
                 /\ reqStatus' = reqStatus
                 /\ validated' = TRUE
       ELSE UNCHANGED <<reqStatus, appData, validated>>
    /\ UNCHANGED <<isLeader, config_dict, seesRelation, provLeader, provStatus>>
    /\ UNCHANGED charmVars

\* update_config called by any unit, leader or not.
UpdateConfigAnyUnit ==
    \E d \in Dicts :
        /\ sees' = [NoSees EXCEPT !.op = "update_config", !.leader = isLeader,
                                  !.differs = (d # config_dict)]
        /\ config_dict' = d
        /\ IF _config_dict_errors(d, TRUE)
           THEN /\ reqStatus' = BlockedStatus(blocked_message)
                /\ appData' = appData
                /\ validated' = FALSE
           ELSE /\ reqStatus' = reqStatus
                /\ appData' = IF seesRelation THEN WriteAll(appData, d)
                              ELSE appData
                /\ validated' = validated
        /\ UNCHANGED <<isLeader, seesRelation, provLeader, provStatus>>
        /\ UNCHANGED charmVars

update_config ==
    \E d \in Dicts :
        /\ sees' = [NoSees EXCEPT !.op = "update_config", !.leader = isLeader,
                                  !.differs = (d # config_dict)]
        /\ IF isLeader
           THEN /\ config_dict' = d
                /\ IF _config_dict_errors(d, TRUE)
                   THEN /\ reqStatus' = BlockedStatus(blocked_message)
                        /\ appData' = appData
                        /\ validated' = FALSE
                   ELSE /\ reqStatus' = reqStatus
                        /\ appData' = IF seesRelation THEN WriteAll(appData, d)
                                      ELSE appData
                        /\ validated' = validated
           ELSE UNCHANGED <<config_dict, reqStatus, appData, validated>>
        /\ UNCHANGED <<isLeader, seesRelation, provLeader, provStatus>>
        /\ UNCHANGED charmVars

\* hasEvent: whether the charm's events define sees_available (the library's
\* SeesCharmEvents defines now_you_see only); without it the emit raises.
SeesProvides_on_relation_changed ==
    /\ seesRelation
    /\ IF ~provLeader
       THEN /\ sees' = [NoSees EXCEPT !.op = "provides_relation_changed"]
            /\ provStatus' = provStatus
       ELSE \E hasEvent \in BOOLEAN :
            LET sees_data ==
                    [field \in REQUIRED_SEES_RELATION_FIELDS
                                 \cup OPTIONAL_SEES_RELATION_FIELDS |->
                        IF field \in DOMAIN appData THEN appData[field]
                        ELSE NoneVal]
                missing == missing_fields(sees_data)
            IN /\ provStatus' =
                    IF missing # <<>>
                    THEN BlockedStatus("Missing fields for sees: "
                                         \o Join(", ", missing))
                    ELSE provStatus
               /\ sees' = [NoSees EXCEPT !.op = "provides_relation_changed",
                                         !.leader = TRUE,
                                         !.emitted = hasEvent]
    /\ UNCHANGED <<isLeader, config_dict, reqStatus, seesRelation, appData,
                   provLeader, validated>>
    /\ UNCHANGED charmVars

\* The sees relation is established.
sees_relation_created ==
    /\ ~seesRelation
    /\ seesRelation' = TRUE
    /\ sees' = NoSees
    /\ UNCHANGED <<isLeader, config_dict, reqStatus, appData, provLeader,
                   provStatus, validated>>
    /\ UNCHANGED charmVars

\* The sees relation is removed, its databags with it.
sees_relation_broken ==
    /\ seesRelation
    /\ seesRelation' = FALSE
    /\ appData' = NoData
    /\ sees' = NoSees
    /\ UNCHANGED <<isLeader, config_dict, reqStatus, provLeader, provStatus,
                   validated>>
    /\ UNCHANGED charmVars

\* Juju moves the leadership of either application.
LeaderChanges ==
    /\ \/ isLeader' = ~isLeader /\ provLeader' = provLeader
       \/ provLeader' = ~provLeader /\ isLeader' = isLeader
    /\ sees' = NoSees
    /\ validated' = (validated /\ isLeader' = isLeader)
    /\ UNCHANGED <<config_dict, reqStatus, seesRelation, appData, provStatus>>
    /\ UNCHANGED charmVars

\* The sees objects just built, beside a charm that has handled nothing.
SeesInit ==
    /\ config = [port |-> "8080", name |-> "a"]
    /\ canConnect = FALSE
    /\ bindAddress = NoneVal
    /\ peerRelation = FALSE
    /\ peerUnits = {}
    /\ peerData = [u \in Units |-> NoneVal]
    /\ ownData = NoneVal
    /\ plan = EmptyPlan
    /\ serviceRunning = FALSE
    /\ status = MaintenanceStatus("")
    /\ pass = NoPass
    /\ quiet = 0
    /\ glob = NoGlob
    /\ action = NoAction
    /\ isLeader \in BOOLEAN
    /\ config_dict \in Dicts
    /\ reqStatus = MaintenanceStatus("")
    /\ seesRelation = FALSE
    /\ appData = NoData
    /\ provLeader \in BOOLEAN
    /\ provStatus = MaintenanceStatus("")
    /\ sees = NoSees
    /\ validated = FALSE

SeesNext ==
    \/ SeesRequires__init__
    \/ SeesRequires_on_relation_changed
    \/ update_config
    \/ SeesProvides_on_relation_changed
    \/ sees_relation_created
    \/ sees_relation_broken
    \/ LeaderChanges

Next ==
    \/ _on_config_changed
    \/ _on_pebble_ready
    \/ _on_start
    \/ _on_peer_relation_joined
    \/ _on_peer_relation_changed
    \/ relation_created
    \/ relation_departed
    \/ BindAddressChanges
    \/ ContainerDown
    \/ ServiceStops
    \/ _on_war_action
    \/ _on_respawn_action
    \/ _on_glob_status_action

Spec == Init /\ [][Next]_vars

SeesSpec == SeesInit /\ [][SeesNext]_vars

(***************************************************************************)
(* Properties.                                                             *)
(***************************************************************************)
\* The connectivity the hook of the step just taken saw when it began.
SawConnectable == pass'.event = "char_pebble_ready" \/ canConnect

\* The services rendered from the current config and peer relation when
\* pr.units is iterated in the given order.
Rendered(order) ==
    _char_layer(config, _get_peer_addresses(peerRelation, order, peerData))

Enemies == plan[_service_name].environment.ENEMIES

\* The peer lists that can be rendered at all: the entries of some of the
\* units, each once, in some order.
EntryLists ==
    UNION {{[i \in DOMAIN o |-> Entry(UnitAddress(o[i]))] : o \in Orders(S)} :
           S \in SUBSET Units}

\* The ENEMIES value of the plan lists the entry.
Lists(services, entry) ==
    /\ _service_name \in DOMAIN services
    /\ \E l \in EntryLists :
        /\ Join(";", l) = services[_service_name].environment.ENEMIES
        /\ \E i \in DOMAIN l : l[i] = entry

\* C1: the second of two complete reconcile passes in a row, with nothing
\* changed in between, adds no layer, restarts nothing and ends Active.
C1_SecondPassIdle ==
    (pass.kind = "full" /\ quiet = 2) =>
        (~pass.changed /\ ~pass.restarted /\ status = ActiveStatus)

\* C2: a complete reconcile pass restarts the service iff it changed the
\* layer and (the service was not running or there is at least one peer).
C2_RestartPolicy ==
    pass.kind = "full" =>
        (pass.restarted <=>
            (pass.changed /\ (~pass.running \/ Cardinality(peerUnits) > 0)))

\* C3: a config-changed event handled with the container connectable and
\* the address known, from an empty plan, leaves the unit Active and the
\* char service running, whatever the peer relation.
C3_ConfigChangedStarts ==
    [][(/\ pass'.event = "config_changed"
        /\ canConnect
        /\ Truthy(bindAddress)
        /\ plan = EmptyPlan)
       => (status' = ActiveStatus /\ serviceRunning')]_vars

\* C4: after a complete reconcile pass the services of the plan are the
\* services rendered from the current config and peer addresses, nothing
\* of the previous plan surviving.
C4_PlanIsRendered ==
    pass.kind = "full" => \E order \in Orders(peerUnits) : plan = Rendered(order)

\* C4 witness: a pass replaced the plan of a running service, and the new
\* peer list is empty although peers are there.
C4_Witness ==
    /\ pass.kind = "full"
    /\ pass.changed
    /\ pass.running
    /\ peerUnits # {}
    /\ Enemies = ""

\* C5: an event handled while the container cannot be connected ends in
\* the maintenance status that waits for the pod, never Active, and leaves
\* the plan, the service and the unit's databag entry as they were.
C5_NoConnectNoMutation ==
    [][(pass'.kind # "none" /\ ~SawConnectable)
       => (/\ status' = MaintenanceStatus("Waiting for pod startup to complete")
           /\ status' # ActiveStatus
           /\ plan' = plan
           /\ serviceRunning' = serviceRunning
           /\ ownData' = ownData
           /\ ~pass'.changed
           /\ ~pass'.restarted)]_vars

\* C5 witness: such a pass ran with a plan applied, the address known and
\* the peer relation there, so there was something to mutate.
C5_Witness ==
    /\ pass.kind = "noconnect"
    /\ ~canConnect
    /\ plan # EmptyPlan
    /\ Truthy(bindAddress)
    /\ peerRelation
    /\ ownData # bindAddress

\* C6: an event handled while the bind address is unknown ends in a waiting
\* status, never Active, whatever the config and peers; the plan is not
\* changed and the service not restarted.
C6_NoAddressWaits ==
    [][(pass'.kind # "none" /\ ~Truthy(bindAddress))
       => (/\ status' \in {MaintenanceStatus("Waiting for IP address"),
                           MaintenanceStatus("Waiting for pod startup to complete")}
           /\ status' # ActiveStatus
           /\ plan' = plan
           /\ serviceRunning' = serviceRunning
           /\ ~pass'.changed
           /\ ~pass'.restarted)]_vars

\* C6 witness: the address check stopped a pass although the container
\* answers, peers with addresses are there and the plan is out of date.
C6_Witness ==
    /\ pass.kind = "noaddress"
    /\ canConnect
    /\ ~Truthy(bindAddress)
    /\ \E u \in peerUnits : Truthy(peerData[u])
    /\ \A order \in Orders(peerUnits) : plan # Rendered(order)

\* C7: a pass that called for a restart which was not performed does not
\* end Active.
C7_FailedRestartNotActive ==
    (pass.kind = "full" /\ pass.restartCalled /\ ~pass.restarted) =>
        status # ActiveStatus

\* C8: once a peer's departure is delivered, with the container connectable
\* and the address known, the plan no longer lists the departed address.
C8_DepartureReconciles ==
    [][\A u \in peerUnits \ peerUnits' :
        (canConnect /\ Truthy(bindAddress)) =>
            ~Lists(plan', Entry(UnitAddress(u)))]_vars

\* C9: the peer list is a function of the relation's contents, whatever
\* the iteration order, and an unchanged set of two or more peers never
\* makes a pass report a change.
C9_PeerListDeterministic ==
    /\ \A o1, o2 \in Orders(peerUnits) :
        _get_peer_addresses(peerRelation, o1, peerData)
            = _get_peer_addresses(peerRelation, o2, peerData)
    /\ (pass.kind = "full" /\ quiet = 2 /\ Cardinality(peerUnits) >= 2)
        => ~pass.changed

\* C10: glob-status never aborts, and every endpoint it was to query is
\* either queried or reported with a failure marker.
C10_GlobStatusCollectsAll ==
    glob.hosts # {} =>
        /\ ~glob.aborted
        /\ glob.hosts = {glob.queried[i] : i \in DOMAIN glob.queried}
                            \cup glob.failed

\* C11: every war action and every respawn action reports its outcome
\* through event.set_results, on success and on failure.
C11_ActionsReport ==
    action.name \in {"war_action", "respawn_action"} => action.results

\* C15: after a complete reconcile pass with the peer relation there, the
\* unit's private_address entry is the bind address read in that pass.
C15_AddressPublished ==
    (pass.kind = "full" /\ peerRelation) => ownData = bindAddress

\* C15 witness: the pass overwrote an older, different address.
C15_Witness ==
    /\ pass.kind = "full"
    /\ peerRelation
    /\ pass.replaced
    /\ ownData = bindAddress

\* C17: when a pass applied a changed layer without the service being
\* started, the next complete pass starts the service.
C17_NextPassStarts ==
    [][(/\ pass.kind = "full"
        /\ pass.changed
        /\ ~pass.restarted
        /\ ~serviceRunning
        /\ pass'.kind = "full")
       => serviceRunning']_vars

\* The entries of the peers that published a non-empty address.
AddressedEntries ==
    {Entry(peerData[u]) : u \in {v \in peerUnits : peerRelation /\ Truthy(peerData[v])}}

\* C18: the peer list holds exactly one "address:8080" per peer unit with a
\* non-empty private_address and nothing else, and after a complete pass
\* ENEMIES is that list joined with ';' (the empty string when it is empty).
C18_EnemiesContent ==
    /\ \A order \in Orders(peerUnits) :
        LET l == _get_peer_addresses(peerRelation, order, peerData)
        IN /\ Len(l) = Cardinality(AddressedEntries)
           /\ {l[i] : i \in DOMAIN l} = AddressedEntries
    /\ pass.kind = "full" =>
        /\ \E l \in Orders(AddressedEntries) : Enemies = Join(";", l)
        /\ (AddressedEntries = {} => Enemies = "")

\* C18 witness: a pass rendered the list with one peer holding an address
\* and another holding the empty string.
C18_Witness ==
    /\ pass.kind = "full"
    /\ \E u, v \in peerUnits : peerData[u] = "" /\ Truthy(peerData[v])
    /\ Enemies # ""

\* C19: respawn issues a restart iff the container is connectable and the
\* char service is in the plan; it never touches the plan, the databag or
\* the status and runs no reconcile pass, and without a restart the service
\* stays as it was.
C19_RespawnGuard ==
    [][action'.name = "respawn_action"
       => (/\ action'.restart <=> (canConnect /\ _service_name \in DOMAIN plan)
           /\ action'.restart => serviceRunning'
           /\ ~action'.restart => serviceRunning' = serviceRunning
           /\ plan' = plan
           /\ ownData' = ownData
           /\ status' = status
           /\ pass' = NoPass)]_vars

\* C19 witness: a respawn refused although the container answers, the
\* service not being configured yet.
C19_Witness ==
    /\ action.name = "respawn_action"
    /\ ~action.restart
    /\ canConnect
    /\ plan = EmptyPlan
    /\ ~serviceRunning

\* The steps of the requires side that validate and publish.
RequiresOps == {"requires_relation_changed", "update_config"}

\* C12: when the leader handles relation-changed or calls update_config and
\* the dictionary then in effect holds an unrecognized key, the unit status
\* becomes Blocked with the fixed message and the application databag is
\* left as it was.
C12_UnknownKeyBlocks ==
    [][(/\ sees'.op \in RequiresOps
        /\ sees'.leader
        /\ DOMAIN config_dict' \ (REQUIRED_SEES_RELATION_FIELDS
                                    \cup OPTIONAL_SEES_RELATION_FIELDS) # {})
       => (/\ reqStatus' = BlockedStatus(blocked_message)
           /\ appData' = appData)]_vars

\* C12 witness: the leader called update_config with a dictionary holding
\* service-token beside the recognized service-hostname, the relation being
\* there, and nothing was published.
C12_Witness ==
    /\ sees.op = "update_config"
    /\ sees.leader
    /\ sees.differs
    /\ seesRelation
    /\ {"service-token", "service-hostname"} \subseteq DOMAIN config_dict
    /\ reqStatus = BlockedStatus(blocked_message)
    /\ appData = NoData

\* C13: when the leader handles relation-changed with a dictionary holding
\* the documented keys service-hostname, service-name and service-port, the
\* handler does not block the unit and every key is then in the application
\* databag with the value str(config_dict[key]).
C13_DocumentedKeysPublished ==
    [][(/\ sees'.op = "requires_relation_changed"
        /\ sees'.leader
        /\ DOMAIN config_dict = DocumentedKeys)
       => (/\ reqStatus' = reqStatus
           /\ \A key \in DOMAIN config_dict :
               /\ key \in DOMAIN appData'
               /\ appData'[key] = PyStr(config_dict[key]))]_vars

C16_LeaderOnlyWrites ==
    [][/\ (sees'.op \in RequiresOps /\ ~isLeader)
          => (/\ appData' = appData
              /\ config_dict' = config_dict
              /\ reqStatus' = reqStatus)
       /\ (sees'.op = "provides_relation_changed" /\ ~provLeader)
          => (/\ appData' = appData
              /\ provStatus' = provStatus)
       /\ (appData' # appData /\ seesRelation')
          => (sees'.op \in RequiresOps /\ isLeader)]_vars

\* C16 witness: a unit that is not leader called update_config with another
\* dictionary while the relation was there.
C16_Witness ==
    /\ sees.op = "update_config"
    /\ ~sees.leader
    /\ ~isLeader
    /\ sees.differs
    /\ seesRelation

\* C20: sees_available is emitted only by the leader and only when every
\* required field is in the remote application's databag.
C20_EmitOnlyWhenValid ==
    (sees.op = "provides_relation_changed" /\ sees.emitted)
    => (/\ sees.leader
        /\ REQUIRED_SEES_RELATION_FIELDS \subseteq DOMAIN appData)

\* C21: once the leader's dictionary passed the full validation and
\* update_config was given recognized keys only since, a further such
\* update_config call or a relation-changed event leaves the unit status as
\* it was, and after the relation-changed event the required keys are in the
\* application databag.
C21_UpdateThenRepublish ==
    [][(/\ validated
        /\ sees'.leader
        /\ \/ sees'.op = "requires_relation_changed"
           \/ /\ sees'.op = "update_config"
              /\ DOMAIN config_dict' \subseteq REQUIRED_SEES_RELATION_FIELDS
                                          \cup OPTIONAL_SEES_RELATION_FIELDS)
       => (/\ reqStatus' = reqStatus
           /\ sees'.op = "requires_relation_changed"
              => REQUIRED_SEES_RELATION_FIELDS \subseteq DOMAIN appData')]_vars

====
